---------------------------- MODULE Spec2Model ----------------------------
(***************************************************************************)
(* MuseScore trackName editor (mscz-trackname-editor.py): the record set   *)
(* kept by PartNameEditor, the container files on disk, and the handlers   *)
(* load_parts, apply_change, add_numbers, reset_all, save_file, open_file, *)
(* load_file_from_path and exit_app.                                       *)
(*                                                                         *)
(* Python values: None is the empty sequence <<>>, a string s that may be  *)
(* None is <<s>> (Some(s)); current_file is a string, "" standing for the  *)
(* falsy None it starts as.  A file is a record [kind, members]; a zip     *)
(* member is [name, method, data]; member data is [kind, form, root,       *)
(* parts]: raw bytes, or an XML document in a given serialised form.       *)
(***************************************************************************)
EXTENDS Integers, Sequences, FiniteSets, TLC

VARIABLES
    fs,                  \* the file system: path -> file, for the paths that exist
    tmp,                 \* save_file's temporary directory: [exists, modified]
    current_file,        \* self.current_file
    parts_data,          \* self.parts_data: Seq of [id, current_name, new_name]
    original_parts_data, \* self.original_parts_data: copies made at load time
    pc,                  \* position inside save_file ("idle" outside it)
    caller,              \* the handler that called save_file, and its argument
    backup_file,         \* save_file local
    counter,             \* save_file local
    num_changes,         \* save_file local
    pre,                 \* the file at current_file when save_file started
    msg,                 \* the last messagebox shown
    running              \* FALSE once root.quit() was called

vars == <<fs, tmp, current_file, parts_data, original_parts_data, pc, caller,
          backup_file, counter, num_changes, pre, msg, running>>

-----------------------------------------------------------------------------
(* Bounds *)

MaxParts == 2        \* Part elements below the root of a generated document
MaxBackups == 1      \* files save_file has created beyond which no save is started
MaxCounter == 3      \* iterations of the backup-name search that are explored
MaxRecords == 3      \* records of a record set handed to add_numbers

-----------------------------------------------------------------------------
(* Python values *)

None == <<>>
Some(s) == <<s>>

\* str(x) as used by an f-string: the text of a string, "None" for None
Str(x) == IF x = None THEN "None" ELSE x[1]

\* s.endswith(suffix)
EndsWith(s, suffix) ==
    /\ Len(s) >= Len(suffix)
    /\ SubSeq(s, Len(s) - Len(suffix) + 1, Len(s)) = suffix

\* s.replace(old, new): every non-overlapping occurrence, left to right
RECURSIVE Replace(_, _, _)
Replace(s, old, new) ==
    IF Len(s) < Len(old) THEN s
    ELSE IF SubSeq(s, 1, Len(old)) = old
         THEN new \o Replace(SubSeq(s, Len(old) + 1, Len(s)), old, new)
         ELSE Head(s) \o Replace(Tail(s), old, new)

\* s.lstrip() and s.rstrip() for the whitespace of the modelled alphabet
RECURSIVE LStrip(_)
LStrip(s) == IF Len(s) > 0 /\ Head(s) = " " THEN LStrip(Tail(s)) ELSE s

RECURSIVE RStrip(_)
RStrip(s) ==
    IF Len(s) > 0 /\ SubSeq(s, Len(s), Len(s)) = " "
    THEN RStrip(SubSeq(s, 1, Len(s) - 1)) ELSE s

\* s.strip()
Strip(s) == RStrip(LStrip(s))

\* c.lower() for one character of the modelled alphabet
LowerChar(c) ==
    CASE c = "S" -> "s" [] c = "M" -> "m" [] c = "C" -> "c" [] c = "Z" -> "z"
      [] OTHER -> c

\* s.lower()
RECURSIVE Lower(_)
Lower(s) == IF Len(s) = 0 THEN s ELSE LowerChar(Head(s)) \o Lower(Tail(s))


\* max(S) of a non-empty set of integers
Max(S) == CHOOSE x \in S : \A y \in S : y <= x

-----------------------------------------------------------------------------
(* Files, archives, documents *)

\* what a path that does not exist holds
NoFile == [kind |-> "none", members |-> <<>>]
\* a file that is no zip archive
Garbage == [kind |-> "garbage", members |-> <<>>]
\* what an interrupted copy or write leaves behind
Partial == [kind |-> "partial", members |-> <<>>]
\* a zip archive with the members ms, in central-directory order
Zip(ms) == [kind |-> "zip", members |-> ms]

\* no temporary directory
NoTmp == [exists |-> FALSE, modified |-> NoFile]

\* os.path.exists(p)
Exists(f, p) == p \in DOMAIN f
\* the file at p, NoFile when there is none
FileAt(f, p) == IF Exists(f, p) THEN f[p] ELSE NoFile

\* a Part element: its id attribute (None when absent), whether it has a
\* trackName child, and that child's text (None when the element is empty)
Part(id, has, text) == [id |-> id, hasTrackName |-> has, text |-> text]
\* an element tree: the root's tag and the Part elements below the root, in
\* document order
Tree(root, parts) == [root |-> root, parts |-> parts]

\* member data that is not XML
Bin(b) == [kind |-> "bin", form |-> b, root |-> "", parts |-> <<>>]
\* the bytes of an XML document in a given serialisation
Xml(form, tree) ==
    [kind |-> "xml", form |-> form, root |-> tree.root, parts |-> tree.parts]
\* bytes that are no well-formed XML
BadXml == [kind |-> "xml", form |-> "malformed", root |-> "", parts |-> <<>>]
\* a zip member
Member(name, method, data) == [name |-> name, method |-> method, data |-> data]

\* ET.parse succeeds on these bytes
Parses(data) == data.kind = "xml" /\ data.form # "malformed"
\* ET.parse(...).getroot()
ETparse(data) == Tree(data.root, data.parts)
\* ET.tostring(root, encoding='unicode')
ETtostring(tree) == Xml("etree", tree)
\* root.findall('.//Part'): the Part elements below the root, never the root
FindAllParts(tree) == tree.parts

IsMscx(m) == EndsWith(m.name, ".mscx")
\* [f for f in mscz.namelist() if f.endswith('.mscx')]
MscxFiles(file) == SelectSeq(file.members, IsMscx)

-----------------------------------------------------------------------------
(* Records *)

Rec(id, cur, new) == [id |-> id, current_name |-> cur, new_name |-> new]

\* part.get('id', 'Unknown')
PartId(p) == IF p.id = None THEN "Unknown" ELSE p.id[1]
\* track_name_elem.text if track_name_elem is not None else "Unknown"
TrackName(p) == IF p.hasTrackName THEN p.text ELSE Some("Unknown")

\* LoadedRecords with the Part elements taken last to first
LoadedRecords_Reversed(tree) ==
    [i \in 1..Len(FindAllParts(tree)) |->
        LET p == FindAllParts(tree)[Len(FindAllParts(tree)) + 1 - i]
        IN  Rec(PartId(p), TrackName(p), TrackName(p))]

\* the record set load_parts builds from the parsed document
LoadedRecords(tree) ==
    [i \in 1..Len(FindAllParts(tree)) |->
        LET p == FindAllParts(tree)[i]
        IN  Rec(PartId(p), TrackName(p), TrackName(p))]

\* has_unsaved_changes(), and changes_made in save_file and exit_app
HasUnsavedChanges(recs) ==
    \E i \in 1..Len(recs) : recs[i].new_name # recs[i].current_name

\* sum(1 for p in self.parts_data if p['new_name'] != p['current_name'])
NumChanges(recs) ==
    Cardinality({i \in 1..Len(recs) : recs[i].new_name # recs[i].current_name})

NoMsg == [kind |-> "", text |-> "", n |-> 0, detail |-> ""]
Msg(kind, text, n, detail) ==
    [kind |-> kind, text |-> text, n |-> n, detail |-> detail]

-----------------------------------------------------------------------------
(* load_parts *)

\* LoadResult with the record set cleared before the archive is opened
LoadResult_ClearFirst(f, cf, recs, orig) ==
    LET file  == FileAt(f, cf)
        mscx  == MscxFiles(file)
        keep(m) == [parts_data |-> <<>>, original_parts_data |-> <<>>, msg |-> m]
    IN  IF cf = "" THEN [parts_data |-> recs, original_parts_data |-> orig,
                         msg |-> Msg("warning", "No file selected", 0, "")]
        ELSE IF file.kind # "zip"
        THEN keep(Msg("error", "Failed to load file", 0, "open"))
        ELSE IF Len(mscx) = 0
        THEN keep(Msg("error", "No .mscx file found in the .mscz archive", 0, ""))
        ELSE IF ~Parses(mscx[1].data)
        THEN keep(Msg("error", "Failed to load file", 0, "parse"))
        ELSE LET loaded == LoadedRecords(ETparse(mscx[1].data))
             IN  [parts_data |-> loaded, original_parts_data |-> loaded,
                  msg |-> Msg("info", "Loaded", Len(loaded), "")]

\* What load_parts does with current_file = cf on the file system f when the
\* record set is recs/orig: the new record set and the messagebox shown.
\* Every failure happens before the record set is cleared.
LoadResult(f, cf, recs, orig) ==
    LET file  == FileAt(f, cf)
        mscx  == MscxFiles(file)
        keep(m) == [parts_data |-> recs, original_parts_data |-> orig, msg |-> m]
    IN  IF cf = "" THEN keep(Msg("warning", "No file selected", 0, ""))
        ELSE IF file.kind # "zip"
        THEN keep(Msg("error", "Failed to load file", 0, "open"))
        ELSE IF Len(mscx) = 0
        THEN keep(Msg("error", "No .mscx file found in the .mscz archive", 0, ""))
        ELSE IF ~Parses(mscx[1].data)
        THEN keep(Msg("error", "Failed to load file", 0, "parse"))
        ELSE LET loaded == LoadedRecords(ETparse(mscx[1].data))
             IN  [parts_data |-> loaded, original_parts_data |-> loaded,
                  msg |-> Msg("info", "Loaded", Len(loaded), "")]

-----------------------------------------------------------------------------
(* Inputs *)

\* the kinds of Part element of the generated documents: with an id and a
\* name (two ids), without id attribute and with an empty trackName child,
\* and without trackName child
PartElems ==
    { Part(Some("1"), TRUE, Some("V")), Part(Some("2"), TRUE, Some("V")),
      Part(None, TRUE, None), Part(Some("2"), FALSE, None) }
\* MuseScore documents: a museScore root with up to MaxParts Part elements
Documents ==
    {Tree("museScore", ps) : ps \in UNION {[1..n -> PartElems] : n \in 0..MaxParts}}

Meta == Member("META-INF/container.xml", "deflated", Bin("meta"))
Thumbnail == Member("Thumbnails/thumbnail.png", "stored", Bin("png"))
\* a MuseScore container holding the document
Archive(tree) ==
    Zip(<<Meta, Member("score.mscx", "deflated", Xml("mscore", tree)), Thumbnail>>)

\* a score with two named parts, and the excerpt of its second part
TwoParts ==
    Tree("museScore", << Part(Some("1"), TRUE, Some("V")),
                         Part(Some("2"), TRUE, Some("V")) >>)
Excerpt == Tree("museScore", << Part(Some("2"), TRUE, Some("V")) >>)

\* a document whose root element is itself a Part
PartRoot == Tree("Part", << Part(Some("1"), TRUE, Some("V")) >>)

\* what else may lie on disk: an archive without .mscx member, an archive
\* whose .mscx member is malformed, a file that is no archive, a score with
\* an excerpt (two .mscx members), and a document with a Part as its root
OtherFiles ==
    { Zip(<<Meta, Thumbnail>>),
      Archive(PartRoot),
      Zip(<<Meta, Member("score.mscx", "deflated", BadXml)>>),
      Garbage,
      Zip(<< Member("score.mscx", "deflated", Xml("mscore", TwoParts)),
             Member("Excerpts/V/V.mscx", "deflated", Xml("mscore", Excerpt)),
             Thumbnail >>) }

\* the paths the user picks in the file dialog or drops on the window
UserPaths == {"s.mscz", "t.mscz", "S.MSCZ"}

\* a backup an earlier run of the editor left beside s.mscz, made when the
\* score still had one part with another name
OldBackup ==
    Archive(Tree("museScore", << Part(Some("1"), TRUE, Some("Old")) >>))
\* the paths at which such backups may lie
OldBackupPaths == {"s_backup.mscz", "s_backup_1.mscz"}

\* the files on f that this run's save_file calls have created: neither a
\* file the user can pick nor a backup of an earlier run
CreatedBySave(f) == {p \in DOMAIN f \ UserPaths : f[p] # OldBackup}

\* what the user may have typed in the edit dialog's entry
Entries == {"", " X "}

\* the state after __init__, whatever lies on disk
Start ==
    /\ tmp = NoTmp
    /\ current_file = ""
    /\ parts_data = <<>>
    /\ original_parts_data = <<>>
    /\ pc = "idle"
    /\ caller = [h |-> "", path |-> ""]
    /\ backup_file = ""
    /\ counter = 0
    /\ num_changes = 0
    /\ pre = NoFile
    /\ msg = NoMsg
    /\ running = TRUE

\* one container on disk, holding any of the generated documents
Init ==
    /\ \E tree \in Documents : fs = ("s.mscz" :> Archive(tree))
    /\ Start

\* two files on disk: a score with two parts, and one of the other files
InitFiles ==
    /\ \E other \in OtherFiles :
          fs = ("s.mscz" :> Archive(TwoParts)) @@ ("t.mscz" :> other)
    /\ Start

\* a score with two parts on disk, beside any backups of earlier runs
InitBackups ==
    /\ \E old \in SUBSET OldBackupPaths :
          fs = ("s.mscz" :> Archive(TwoParts)) @@ [p \in old |-> OldBackup]
    /\ Start

\* the same score under two names, one of them in upper case
InitCase ==
    /\ fs = ("s.mscz" :> Archive(TwoParts)) @@ ("S.MSCZ" :> Archive(TwoParts))
    /\ Start

\* a handler can start: the application runs, no handler is running and no
\* messagebox is open (a messagebox blocks its handler until it is closed)
Idle == pc = "idle" /\ running /\ msg = NoMsg

\* the user closes the messagebox that ended a handler
Dismiss ==
    /\ pc = "idle"
    /\ msg # NoMsg
    /\ msg' = NoMsg
    /\ UNCHANGED <<fs, tmp, current_file, parts_data, original_parts_data, pc,
                   caller, backup_file, counter, num_changes, pre, running>>

ResetLocals ==
    /\ backup_file' = ""
    /\ counter' = 0
    /\ num_changes' = 0
    /\ pre' = NoFile

\* self.current_file = path; self.load_parts()
SetFileAndLoad(path) ==
    LET r == LoadResult(fs, path, parts_data, original_parts_data)
    IN  /\ current_file' = path
        /\ parts_data' = r.parts_data
        /\ original_parts_data' = r.original_parts_data
        /\ msg' = r.msg

\* the Reload button: load_parts on the current file
LoadParts ==
    /\ Idle
    /\ SetFileAndLoad(current_file)
    /\ ResetLocals
    /\ UNCHANGED <<fs, tmp, pc, caller, running>>

\* apply_change of the edit dialog opened on row i, the entry holding entry
ApplyChange ==
    /\ Idle
    /\ \E i \in 1..Len(parts_data), entry \in Entries :
        LET new_name == Strip(entry)
        IN  parts_data' =
                IF new_name # ""
                THEN [parts_data EXCEPT ![i].new_name = Some(new_name)]
                ELSE parts_data
    /\ msg' = NoMsg
    /\ ResetLocals
    /\ UNCHANGED <<fs, tmp, current_file, original_parts_data, pc, caller, running>>

-----------------------------------------------------------------------------
(* add_numbers, reset_all *)

\* same_name_parts: the indices of the records with record i's current_name
SameNameParts(recs, i) ==
    {j \in 1..Len(recs) : recs[j].current_name = recs[i].current_name}

\* Position without the + 1
Position_ZeroBased(recs, i) == Cardinality({j \in SameNameParts(recs, i) : j < i})

\* same_name_parts.index(i) + 1
Position(recs, i) == Cardinality({j \in SameNameParts(recs, i) : j <= i})

\* f"{current_name} {position}"
NumberedName(recs, i) ==
    Some(Str(recs[i].current_name) \o " " \o ToString(Position(recs, i)))

\* the record set after the second pass of add_numbers
Numbered(recs) ==
    [i \in 1..Len(recs) |->
        IF Cardinality(SameNameParts(recs, i)) > 1
        THEN [recs[i] EXCEPT !.new_name = NumberedName(recs, i)]
        ELSE recs[i]]

AddNumbers ==
    /\ Idle
    /\ parts_data' = Numbered(parts_data)
    /\ msg' = IF \E i \in 1..Len(parts_data) :
                    Cardinality(SameNameParts(parts_data, i)) > 1
              THEN Msg("info", "Added numbers to duplicate part names", 0, "")
              ELSE Msg("info", "No duplicate part names found", 0, "")
    /\ ResetLocals
    /\ UNCHANGED <<fs, tmp, current_file, original_parts_data, pc, caller, running>>

\* ResetRecords restoring current_name as well
ResetRecords_Both(recs, orig) ==
    [i \in 1..Len(recs) |->
        IF i <= Len(orig)
        THEN [recs[i] EXCEPT !.new_name = orig[i].current_name,
                             !.current_name = orig[i].current_name]
        ELSE recs[i]]

\* the record set after reset_all's loop over original_parts_data
ResetRecords(recs, orig) ==
    [i \in 1..Len(recs) |->
        IF i <= Len(orig)
        THEN [recs[i] EXCEPT !.new_name = orig[i].current_name]
        ELSE recs[i]]

ResetAll ==
    /\ Idle
    /\ \E confirmed \in BOOLEAN :
        parts_data' = IF confirmed
                      THEN ResetRecords(parts_data, original_parts_data)
                      ELSE parts_data
    /\ msg' = NoMsg
    /\ ResetLocals
    /\ UNCHANGED <<fs, tmp, current_file, original_parts_data, pc, caller, running>>

-----------------------------------------------------------------------------
(* save_file *)

\* self.current_file.replace('.mscz', '_backup.mscz')
FirstBackupName(cf) == Replace(cf, ".mscz", "_backup.mscz")
\* self.current_file.replace('.mscz', f'_backup_{counter}.mscz')
NumberedBackupName(cf, k) ==
    Replace(cf, ".mscz", "_backup_" \o ToString(k) \o ".mscz")

\* shutil.copy2(src, dst) on the file system f, when it succeeds
Copy2(f, src, dst) == (dst :> f[src]) @@ f
\* os.remove(p)
Remove(f, p) == [q \in DOMAIN f \ {p} |-> f[q]]

\* the text a Part's trackName child has after the loop over parts_data:
\* every record with the Part's id and a changed name assigns it, in order,
\* and only when the child exists
UpdatedText(p, recs) ==
    LET hits == {j \in 1..Len(recs) :
                    /\ Some(recs[j].id) = p.id
                    /\ recs[j].new_name # recs[j].current_name}
    IN  IF p.hasTrackName /\ hits # {}
        THEN recs[Max(hits)].new_name
        ELSE p.text

\* the document after "Update part names"
UpdatedTree(tree, recs) ==
    Tree(tree.root,
         [i \in 1..Len(FindAllParts(tree)) |->
            [FindAllParts(tree)[i] EXCEPT
                !.text = UpdatedText(FindAllParts(tree)[i], recs)]])

\* RewrittenMember with every member's content passed through the parser
RewrittenMember_AllParsed(m, recs) ==
    Member(m.name, "deflated",
           IF Parses(m.data)
           THEN ETtostring(UpdatedTree(ETparse(m.data), recs))
           ELSE Bin(""))

\* what one member of the original becomes in modified.mscz: a .mscx member is
\* parsed, updated and written under its name with the archive's compression;
\* any other member is written with its own ZipInfo and its bytes
RewrittenMember(m, recs) ==
    IF IsMscx(m)
    THEN Member(m.name, "deflated",
                ETtostring(UpdatedTree(ETparse(m.data), recs)))
    ELSE m

\* the loop over original.infolist() runs to its end: the original is a zip
\* archive and every .mscx member parses
CanRewrite(file) ==
    /\ file.kind = "zip"
    /\ \A k \in 1..Len(file.members) :
          IsMscx(file.members[k]) => Parses(file.members[k].data)

\* modified.mscz, completely written
Rewritten(file, recs) ==
    Zip([k \in 1..Len(file.members) |-> RewrittenMember(file.members[k], recs)])

\* part_data['current_name'] = part_data['new_name'] for every record
Committed(recs) ==
    [i \in 1..Len(recs) |-> [recs[i] EXCEPT !.current_name = recs[i].new_name]]

\* SaveStart without the test of changes_made
SaveStart_NoTest(h, path) ==
    /\ Cardinality(CreatedBySave(fs)) < MaxBackups
    /\ caller' = [h |-> h, path |-> path]
    /\ IF current_file = ""
       THEN /\ msg' = Msg("warning", "No file selected", 0, "")
            /\ pc' = "return"
            /\ ResetLocals
       ELSE /\ msg' = NoMsg
            /\ num_changes' = NumChanges(parts_data)
            /\ backup_file' = FirstBackupName(current_file)
            /\ counter' = 1
            /\ pre' = FileAt(fs, current_file)
            /\ pc' = "backup_name"
    /\ UNCHANGED <<fs, tmp, current_file, parts_data, original_parts_data, running>>

\* save_file up to the start of the backup-name search, called by handler h
SaveStart(h, path) ==
    /\ Cardinality(CreatedBySave(fs)) < MaxBackups
    /\ caller' = [h |-> h, path |-> path]
    /\ IF current_file = ""
       THEN /\ msg' = Msg("warning", "No file selected", 0, "")
            /\ pc' = "return"
            /\ ResetLocals
       ELSE IF ~HasUnsavedChanges(parts_data)
       THEN /\ msg' = Msg("info", "No changes to save", 0, "")
            /\ pc' = "return"
            /\ ResetLocals
       ELSE /\ msg' = NoMsg
            /\ num_changes' = NumChanges(parts_data)
            /\ backup_file' = FirstBackupName(current_file)
            /\ counter' = 1
            /\ pre' = FileAt(fs, current_file)
            /\ pc' = "backup_name"
    /\ UNCHANGED <<fs, tmp, current_file, parts_data, original_parts_data, running>>

\* the Save button
SaveFile ==
    /\ Idle
    /\ SaveStart("save_file", "")

\* SaveBackupName without the while loop
SaveBackupName_NoSearch ==
    /\ pc = "backup_name"
    /\ pc' = "copy"
    /\ UNCHANGED <<backup_file, counter>>
    /\ UNCHANGED <<fs, tmp, current_file, parts_data, original_parts_data,
                   caller, num_changes, pre, msg, running>>

\* one test of "while os.path.exists(backup_file)", and the body if it holds
SaveBackupName ==
    /\ pc = "backup_name"
    /\ IF Exists(fs, backup_file)
       THEN /\ counter < MaxCounter
            /\ backup_file' = NumberedBackupName(current_file, counter)
            /\ counter' = counter + 1
            /\ pc' = pc
       ELSE /\ pc' = "copy"
            /\ UNCHANGED <<backup_file, counter>>
    /\ UNCHANGED <<fs, tmp, current_file, parts_data, original_parts_data,
                   caller, num_changes, pre, msg, running>>

\* the finally clause left out
Finally_Skipped(t) == t

\* the finally clause: shutil.rmtree(temp_dir)
Finally(t) == NoTmp

\* the except clause of save_file, reached from the call that raised (after
\* the finally clause when the temporary directory exists)
Raise(call) ==
    /\ msg' = Msg("error", "Failed to save file", 0, call)
    /\ pc' = "return"

\* SaveCopy without the copy
SaveCopy_NoCopy ==
    /\ pc = "copy"
    /\ fs' = fs
    /\ pc' = "build"
    /\ msg' = msg
    /\ UNCHANGED <<tmp, current_file, parts_data, original_parts_data, caller,
                   backup_file, counter, num_changes, pre, running>>

\* shutil.copy2(self.current_file, backup_file): it succeeds, or it raises
\* leaving no backup or a partial one
SaveCopy ==
    /\ pc = "copy"
    /\ \/ /\ Exists(fs, current_file)
          /\ fs' = Copy2(fs, current_file, backup_file)
          /\ pc' = "build"
          /\ msg' = msg
       \/ /\ fs' = fs
          /\ Raise("copy2")
       \/ /\ Exists(fs, current_file)
          /\ fs' = (backup_file :> Partial) @@ fs
          /\ Raise("copy2")
    /\ UNCHANGED <<tmp, current_file, parts_data, original_parts_data, caller,
                   backup_file, counter, num_changes, pre, running>>

\* SaveBuild writing the new container over the original path
SaveBuild_InPlace ==
    /\ pc = "build"
    /\ \/ /\ CanRewrite(FileAt(fs, current_file))
          /\ tmp' = [exists |-> TRUE,
                     modified |-> Rewritten(fs[current_file], parts_data)]
          /\ fs' = fs
          /\ pc' = "remove"
          /\ msg' = msg
       \/ /\ tmp' = tmp
          /\ fs' = fs
          /\ Raise("mkdtemp")
       \/ /\ tmp' = tmp
          /\ fs' = (current_file :> Partial) @@ fs
          /\ Raise("build")
    /\ UNCHANGED <<current_file, parts_data, original_parts_data, caller,
                   backup_file, counter, num_changes, pre, running>>

\* tempfile.mkdtemp() and the two with-blocks that write modified.mscz
SaveBuild ==
    /\ pc = "build"
    /\ \/ /\ CanRewrite(FileAt(fs, current_file))
          /\ tmp' = [exists |-> TRUE,
                     modified |-> Rewritten(fs[current_file], parts_data)]
          /\ pc' = "remove"
          /\ msg' = msg
       \/ /\ tmp' = tmp
          /\ Raise("mkdtemp")
       \/ /\ \E left \in {NoFile, Partial} :
                tmp' = Finally([exists |-> TRUE, modified |-> left])
          /\ Raise("build")
    /\ UNCHANGED <<fs, current_file, parts_data, original_parts_data, caller,
                   backup_file, counter, num_changes, pre, running>>

\* os.remove(self.current_file)
SaveRemove ==
    /\ pc = "remove"
    /\ \/ /\ Exists(fs, current_file)
          /\ fs' = Remove(fs, current_file)
          /\ tmp' = tmp
          /\ pc' = "move"
          /\ msg' = msg
       \/ /\ fs' = fs
          /\ tmp' = Finally(tmp)
          /\ Raise("remove")
    /\ UNCHANGED <<current_file, parts_data, original_parts_data, caller,
                   backup_file, counter, num_changes, pre, running>>

\* shutil.move(os.path.join(temp_dir, "modified.mscz"), self.current_file),
\* and when it succeeds the update of every current_name and the success
\* message, shown inside the try block: the finally clause runs once the
\* message is closed
SaveMove ==
    /\ pc = "move"
    /\ \/ /\ fs' = (current_file :> tmp.modified) @@ fs
          /\ parts_data' = Committed(parts_data)
          /\ msg' = Msg("info", "File saved successfully!", num_changes, backup_file)
          /\ tmp' = [tmp EXCEPT !.modified = NoFile]
          /\ pc' = "return"
       \/ /\ \/ fs' = fs
             \/ fs' = (current_file :> Partial) @@ fs
          /\ parts_data' = parts_data
          /\ tmp' = Finally(tmp)
          /\ Raise("move")
    /\ UNCHANGED <<current_file, original_parts_data, caller,
                   backup_file, counter, num_changes, pre, running>>

-----------------------------------------------------------------------------
(* open_file, load_file_from_path, on_drop, exit_app *)

\* tk.filedialog.askopenfilename and what open_file does with its answer
\* ("" when the dialog is cancelled)
OpenDialog ==
    \/ \E filename \in UserPaths \cap DOMAIN fs : SetFileAndLoad(filename)
    \/ /\ msg' = NoMsg
       /\ UNCHANGED <<current_file, parts_data, original_parts_data>>

\* the answers of messagebox.askyesnocancel
Answers == {"yes", "no", "cancel"}

\* open_file once the "Unsaved Changes" question is answered
OpenFileAnswered(response) ==
    CASE response = "cancel" ->
           /\ msg' = NoMsg
           /\ ResetLocals
           /\ UNCHANGED <<fs, tmp, current_file, parts_data,
                          original_parts_data, pc, caller, running>>
      [] response = "yes" -> SaveStart("open_file", "")
      [] OTHER ->
           /\ OpenDialog
           /\ ResetLocals
           /\ UNCHANGED <<fs, tmp, pc, caller, running>>

OpenFile ==
    /\ Idle
    /\ IF current_file # "" /\ HasUnsavedChanges(parts_data)
       THEN \E response \in Answers : OpenFileAnswered(response)
       ELSE /\ OpenDialog
            /\ ResetLocals
            /\ UNCHANGED <<fs, tmp, pc, caller, running>>

\* load_file_from_path(path) once the "Unsaved Changes" question is answered
LoadFileFromPathAnswered(path, response) ==
    CASE response = "cancel" ->
           /\ msg' = NoMsg
           /\ ResetLocals
           /\ UNCHANGED <<fs, tmp, current_file, parts_data,
                          original_parts_data, pc, caller, running>>
      [] response = "yes" -> SaveStart("load_file_from_path", path)
      [] OTHER ->
           /\ SetFileAndLoad(path)
           /\ ResetLocals
           /\ UNCHANGED <<fs, tmp, pc, caller, running>>

\* load_file_from_path(path), run by the callback on_drop queued
LoadFileFromPath(path) ==
    IF current_file # "" /\ HasUnsavedChanges(parts_data)
    THEN \E response \in Answers : LoadFileFromPathAnswered(path, response)
    ELSE /\ SetFileAndLoad(path)
         /\ ResetLocals
         /\ UNCHANGED <<fs, tmp, pc, caller, running>>

\* on_drop for a drop of one path, and the callback it queues
OnDrop ==
    /\ Idle
    /\ \E clean_path \in UserPaths :
        IF EndsWith(Lower(clean_path), ".mscz") /\ Exists(fs, clean_path)
        THEN LoadFileFromPath(clean_path)
        ELSE /\ msg' = Msg("warning", "Invalid File", 0, "")
             /\ ResetLocals
             /\ UNCHANGED <<fs, tmp, current_file, parts_data,
                            original_parts_data, pc, caller, running>>

\* self.root.quit(): the main loop ends, and with it the process and its
\* record set
Quit ==
    /\ running' = FALSE
    /\ current_file' = ""
    /\ parts_data' = <<>>
    /\ original_parts_data' = <<>>
    /\ msg' = NoMsg
    /\ ResetLocals
    /\ UNCHANGED <<fs, tmp, pc, caller>>

ExitApp ==
    /\ Idle
    /\ IF HasUnsavedChanges(parts_data)
       THEN \E response \in Answers :
              CASE response = "cancel" ->
                     /\ msg' = NoMsg
                     /\ ResetLocals
                     /\ UNCHANGED <<fs, tmp, current_file, parts_data,
                                    original_parts_data, pc, caller, running>>
                [] response = "yes" -> SaveStart("exit_app", "")
                [] OTHER -> Quit
       ELSE Quit

\* SaveReturn going on to open the file whatever the save has left
SaveReturn_Proceeds ==
    /\ pc = "return"
    /\ pc' = "idle"
    /\ tmp' = IF tmp.exists THEN Finally(tmp) ELSE tmp
    /\ caller' = [h |-> "", path |-> ""]
    /\ ResetLocals
    /\ CASE caller.h = "open_file" -> OpenDialog
         [] caller.h = "load_file_from_path" -> SetFileAndLoad(caller.path)
         [] OTHER ->
              /\ msg' = NoMsg
              /\ UNCHANGED <<current_file, parts_data, original_parts_data>>
    /\ UNCHANGED <<fs, running>>

\* the user closes save_file's messagebox, the finally clause removes the
\* temporary directory if it is still there, and save_file returns to the
\* handler that called it, which runs to its end
SaveReturn ==
    /\ pc = "return"
    /\ pc' = "idle"
    /\ tmp' = IF tmp.exists THEN Finally(tmp) ELSE tmp
    /\ caller' = [h |-> "", path |-> ""]
    /\ ResetLocals
    /\ CASE caller.h = "open_file" /\ ~HasUnsavedChanges(parts_data) ->
              OpenDialog
         [] caller.h = "load_file_from_path" /\ ~HasUnsavedChanges(parts_data) ->
              SetFileAndLoad(caller.path)
         [] OTHER ->
              /\ msg' = NoMsg
              /\ UNCHANGED <<current_file, parts_data, original_parts_data>>
    /\ UNCHANGED <<fs, running>>

-----------------------------------------------------------------------------

Next ==
    \/ LoadParts
    \/ ApplyChange
    \/ AddNumbers
    \/ ResetAll
    \/ SaveFile
    \/ SaveBackupName
    \/ SaveCopy
    \/ SaveBuild
    \/ SaveRemove
    \/ SaveMove
    \/ SaveReturn
    \/ OpenFile
    \/ OnDrop
    \/ ExitApp
    \/ Dismiss

Spec == Init /\ [][Next]_vars

SpecFiles == InitFiles /\ [][Next]_vars

SpecBackups == InitBackups /\ [][Next]_vars

SpecCase == InitCase /\ [][Next]_vars

-----------------------------------------------------------------------------
(* add_numbers on freshly loaded record sets of up to MaxRecords records *)

\* the track names of the scores handed to add_numbers (None: an empty
\* trackName element)
TrackNames == {Some("Violin"), Some("Oboe"), Some("Violin 1"), None}

\* the score whose i-th Part has id i and the i-th of the names
ScoreOf(names) ==
    Tree("museScore",
         [i \in 1..Len(names) |-> Part(Some(ToString(i)), TRUE, names[i])])

\* the state after opening such a score and closing the "Loaded" messagebox
InitNumbering ==
    /\ \E names \in UNION {[1..n -> TrackNames] : n \in 0..MaxRecords} :
          /\ fs = ("s.mscz" :> Archive(ScoreOf(names)))
          /\ parts_data = LoadedRecords(ScoreOf(names))
          /\ original_parts_data = LoadedRecords(ScoreOf(names))
    /\ tmp = NoTmp
    /\ current_file = "s.mscz"
    /\ pc = "idle"
    /\ caller = [h |-> "", path |-> ""]
    /\ backup_file = ""
    /\ counter = 0
    /\ num_changes = 0
    /\ pre = NoFile
    /\ msg = NoMsg
    /\ running = TRUE

NextNumbering ==
    \/ AddNumbers
    \/ ApplyChange
    \/ ResetAll
    \/ Dismiss

SpecNumbering == InitNumbering /\ [][NextNumbering]_vars

-----------------------------------------------------------------------------
(* Properties *)

\* save_file has just reported success and not yet returned
Saved == pc = "return" /\ msg.text = "File saved successfully!"

\* the members of an archive that are no .mscx documents: name and bytes
IsOther(m) == ~IsMscx(m)
NameAndBytes(file) ==
    LET others == SelectSeq(file.members, IsOther)
    IN  [k \in 1..Len(others) |-> <<others[k].name, others[k].data>>]

\* C1: after a successful save with at least one changed record, the backup
\* file holds the bytes the container had before the save, and the members of
\* the rewritten container that are no .mscx documents are the pre-save ones,
\* with the same names and bytes, none added, dropped or altered.
C1_BackupAndOtherMembers ==
    Saved =>
        /\ Exists(fs, backup_file)
        /\ fs[backup_file] = pre
        /\ Exists(fs, current_file)
        /\ NameAndBytes(fs[current_file]) = NameAndBytes(pre)

\* a successful save of a container with other members, whose bytes changed
C1_Witness ==
    /\ Saved
    /\ num_changes > 0
    /\ Len(NameAndBytes(pre)) = 2
    /\ fs[current_file] # pre
    /\ fs[backup_file] = pre

\* what load_parts reads from the container at current_file
Reloaded == LoadResult(fs, current_file, parts_data, original_parts_data)

\* C2: after a successful save, load_parts on the same path gives every
\* record the name the save applied: the new_name of a changed record, the
\* unchanged current_name of every other record (the values current_name has
\* once the save has committed).
C2_RoundTrip ==
    Saved =>
        /\ Reloaded.msg.text = "Loaded"
        /\ Len(Reloaded.parts_data) = Len(parts_data)
        /\ \A i \in 1..Len(parts_data) :
              Reloaded.parts_data[i].current_name = parts_data[i].current_name

\* the frame of a save_file call that does nothing
C3_NoOp ==
    /\ fs' = fs
    /\ tmp' = tmp
    /\ current_file' = current_file
    /\ parts_data' = parts_data
    /\ original_parts_data' = original_parts_data

\* save_file is entered with no record changed
C3_CalledUnchanged ==
    pc = "idle" /\ pc' # "idle" /\ ~HasUnsavedChanges(parts_data)

\* C3: when save_file is called on a selected container while every record
\* has new_name equal to current_name, it reports "No changes to save" and
\* returns having changed nothing: no backup file, no temporary directory,
\* the container file and every record as they were.
C3_NoChangesSave ==
    [][ /\ (C3_CalledUnchanged /\ current_file # "") =>
              /\ pc' = "return"
              /\ msg' = Msg("info", "No changes to save", 0, "")
              /\ C3_NoOp
        /\ (pc = "return" /\ msg.text = "No changes to save") =>
              /\ pc' = "idle"
              /\ C3_NoOp
      ]_vars

\* save_file reports that the records loaded from the container have no
\* changes, and nothing but the container is on disk
C3_Witness ==
    /\ pc = "return"
    /\ msg.text = "No changes to save"
    /\ Len(parts_data) > 0
    /\ DOMAIN fs = {"s.mscz"}
    /\ tmp = NoTmp

\* C4: in every state of a save in which the file at the original path has
\* been removed or replaced, the backup file exists and holds the pre-save
\* bytes: the backup is complete before the original is first modified.
C4_BackupBeforeMutation ==
    (pc # "idle" /\ pre # NoFile /\ FileAt(fs, current_file) # pre) =>
        /\ Exists(fs, backup_file)
        /\ fs[backup_file] = pre

\* the original has been removed and the new container not yet moved in
C4_Witness ==
    /\ pc = "move"
    /\ pre.kind = "zip"
    /\ ~Exists(fs, current_file)
    /\ fs[backup_file] = pre

\* C5: a save_file step that fails while creating the backup or building the
\* new container reports the failure and returns with the original path as it
\* was before the save; and the file at the original path changes only once
\* the new container is completely written in the temporary directory.
C5_FailureLeavesOriginal ==
    [][ /\ (pc \in {"copy", "build"} /\ pc' = "return") =>
              /\ msg'.kind = "error"
              /\ msg'.text = "Failed to save file"
              /\ FileAt(fs', current_file') = pre
              /\ parts_data' = parts_data
        /\ (pc # "idle" /\ FileAt(fs', current_file) # FileAt(fs, current_file)) =>
              /\ pc \in {"remove", "move"}
              /\ tmp.exists
              /\ tmp.modified.kind = "zip"
      ]_vars

\* the build failed after the backup was made: the original is still there
C5_Witness ==
    /\ pc = "return"
    /\ msg.text = "Failed to save file"
    /\ msg.detail = "build"
    /\ pre.kind = "zip"
    /\ fs[current_file] = pre
    /\ fs[backup_file] = pre

\* the current names of a record set, in order
CurrentNames(recs) == [i \in 1..Len(recs) |-> recs[i].current_name]

\* C6: while the application runs, the current names change only when a load
\* rebuilds the record set, or in the step of save_file that has moved the
\* new container into place, where every current_name becomes the record's
\* new_name; edits, add_numbers, reset_all, a save without changes and a
\* failed save leave them as they are.
C6_CurrentNameChanges ==
    [][ (running' /\ CurrentNames(parts_data') # CurrentNames(parts_data)) =>
            \/ msg'.text = "Loaded"
            \/ /\ pc = "move"
               /\ msg'.text = "File saved successfully!"
               /\ FileAt(fs', current_file) = tmp.modified
               /\ CurrentNames(parts_data')
                    = [i \in 1..Len(parts_data) |-> parts_data[i].new_name]
      ]_vars

\* a save has given a record a current name it was not loaded with
C6_Witness ==
    /\ Saved
    /\ \E i \in 1..Len(parts_data) :
          parts_data[i].current_name # original_parts_data[i].current_name

\* the document load_parts has just read: the first .mscx member of the
\* container at current_file
LoadedDoc == ETparse(MscxFiles(fs[current_file])[1].data)

\* the record set is the one load_parts builds from n Part elements ps
C7_RecordsOf(ps, n) ==
    /\ Len(parts_data) = n
    /\ msg.n = n
    /\ \A i \in 1..Len(parts_data) :
          /\ i <= Len(ps)
          /\ parts_data[i].id = PartId(ps[i])
          /\ parts_data[i].current_name = TrackName(ps[i])
          /\ parts_data[i].new_name = parts_data[i].current_name
    /\ original_parts_data = parts_data

\* C7 as stated: a successful load_parts on a container whose first .mscx
\* member holds N Part elements anywhere in the tree, the root included,
\* leaves exactly N records, in document order, each with new_name equal to
\* current_name.
C7_Original ==
    msg.text = "Loaded" =>
        C7_RecordsOf(LoadedDoc.parts,
                     Len(LoadedDoc.parts) + (IF LoadedDoc.root = "Part" THEN 1 ELSE 0))

\* C7 amended: a successful load_parts on a container whose first .mscx
\* member holds N Part elements below its root element replaces the record
\* set with exactly N records, in document order, each with new_name equal
\* to current_name; nothing of a previous record set is left.
C7_LoadedRecords ==
    msg.text = "Loaded" =>
        C7_RecordsOf(LoadedDoc.parts, Len(LoadedDoc.parts))

\* the score with an excerpt has been loaded: two records, from the first
\* .mscx member
C7_Witness ==
    /\ msg.text = "Loaded"
    /\ current_file = "t.mscz"
    /\ Len(MscxFiles(fs[current_file])) = 2
    /\ Len(parts_data) = 2
    /\ parts_data[1].id = "1"
    /\ parts_data[2].id = "2"

\* C8: the name of a loaded record is the text of the Part's trackName
\* child, and "Unknown" when the Part has no trackName child or the child's
\* text is empty; its id is the Part's id attribute, or "Unknown" when the
\* attribute is absent.
C8_NamesAndIds ==
    msg.text = "Loaded" =>
        /\ Len(parts_data) = Len(LoadedDoc.parts)
        /\ \A i \in 1..Len(parts_data) :
              LET p == LoadedDoc.parts[i]
              IN  /\ parts_data[i].current_name =
                        IF p.hasTrackName /\ p.text # None /\ p.text # Some("")
                        THEN p.text
                        ELSE Some("Unknown")
                  /\ parts_data[i].id =
                        IF p.id = None THEN "Unknown" ELSE p.id[1]

\* a step of add_numbers
C9_Step ==
    /\ msg = NoMsg
    /\ msg'.text \in {"Added numbers to duplicate part names",
                      "No duplicate part names found"}

\* the records with record i's current_name, and i's 1-based position in them
C9_Same(i) ==
    {j \in 1..Len(parts_data) :
        parts_data[j].current_name = parts_data[i].current_name}
C9_K(i) == Cardinality({j \in C9_Same(i) : j <= i})

\* C9: add_numbers gives a record whose current_name occurs in more than one
\* record the new_name current_name + " " + k, k its 1-based position among
\* the records with that current_name in document order; a record with a
\* unique current_name keeps its new_name; no current_name, id or order
\* changes. Current names Violin, Violin, Oboe give Violin 1, Violin 2, Oboe,
\* and a set with all-unique current names is left as it is.
C9_AddNumbers ==
    [][ C9_Step =>
          /\ Len(parts_data') = Len(parts_data)
          /\ \A i \in 1..Len(parts_data) :
                /\ parts_data'[i].id = parts_data[i].id
                /\ parts_data'[i].current_name = parts_data[i].current_name
                /\ parts_data'[i].new_name =
                      IF Cardinality(C9_Same(i)) > 1
                      THEN Some(Str(parts_data[i].current_name) \o " "
                                    \o ToString(C9_K(i)))
                      ELSE parts_data[i].new_name
          /\ ( /\ CurrentNames(parts_data)
                    = <<Some("Violin"), Some("Violin"), Some("Oboe")>>
               /\ ~HasUnsavedChanges(parts_data) )
             => [i \in 1..3 |-> parts_data'[i].new_name]
                    = <<Some("Violin 1"), Some("Violin 2"), Some("Oboe")>>
          /\ (\A i \in 1..Len(parts_data) : Cardinality(C9_Same(i)) = 1)
             => parts_data' = parts_data
      ]_vars

\* add_numbers has numbered Violin, Violin, Oboe
C9_Witness ==
    /\ msg.text = "Added numbers to duplicate part names"
    /\ CurrentNames(parts_data) = <<Some("Violin"), Some("Violin"), Some("Oboe")>>
    /\ [i \in 1..3 |-> parts_data[i].new_name]
          = <<Some("Violin 1"), Some("Violin 2"), Some("Oboe")>>

\* load_parts can read the file: a zip archive whose first .mscx member is a
\* well-formed document
C10_Loadable(file) ==
    /\ file.kind = "zip"
    /\ Len(MscxFiles(file)) > 0
    /\ Parses(MscxFiles(file)[1].data)

\* a step in which load_parts ran on a selected file to its end
C10_LoadStep ==
    /\ msg = NoMsg \/ pc = "return"
    /\ msg'.text \in {"Loaded", "Failed to load file",
                      "No .mscx file found in the .mscz archive"}

\* C10: a load of a file that cannot be opened as an archive, has no .mscx
\* member or whose document cannot be parsed shows an error and leaves the
\* record set exactly as it was: the same records with the same ids,
\* current names and new names.
C10_FailedLoadKeepsRecords ==
    [][ (C10_LoadStep /\ ~C10_Loadable(FileAt(fs, current_file'))) =>
            /\ msg'.kind = "error"
            /\ parts_data' = parts_data
            /\ original_parts_data' = original_parts_data
      ]_vars

\* a load of the other file failed while the records had pending edits
C10_Witness ==
    /\ msg.kind = "error"
    /\ msg.text \in {"Failed to load file",
                     "No .mscx file found in the .mscz archive"}
    /\ current_file = "t.mscz"
    /\ HasUnsavedChanges(parts_data)

\* C11: the temporary directory save_file creates is gone when the call
\* returns, and already when a failure of a later step (reading the archive,
\* parsing, writing a member, removing the original, moving the new
\* container) is reported: outside save_file no temporary directory exists.
C11_TempDirRemoved ==
    /\ pc = "idle" => ~tmp.exists
    /\ (pc = "return" /\ msg.kind = "error") => ~tmp.exists

\* the removal of the original failed after modified.mscz was written, and
\* the temporary directory is gone
C11_Witness ==
    /\ pc = "return"
    /\ msg.text = "Failed to save file"
    /\ msg.detail = "remove"
    /\ tmp = NoTmp
    /\ Exists(fs, backup_file)

\* name is the backup path the claim describes for the container cf on the
\* file system f: the "_backup" name if no file is there, otherwise the
\* "_backup_k" name for the smallest k >= 1 at which no file is
C12_FreeName(f, cf, name) ==
    IF ~Exists(f, FirstBackupName(cf))
    THEN name = FirstBackupName(cf)
    ELSE \E k \in 1..MaxCounter :
            /\ name = NumberedBackupName(cf, k)
            /\ ~Exists(f, name)
            /\ \A j \in 1..(k - 1) : Exists(f, NumberedBackupName(cf, j))

\* C12: the backup path save_file settles on is one at which no file existed
\* when the save started: the "_backup" name if free, else the "_backup_k"
\* name of the smallest free k >= 1; no step of a save removes or overwrites
\* a file other than the container itself, so earlier backups stay as they
\* are, and the copy adds exactly one file, the new backup.
C12_BackupPathFree ==
    [][ /\ (pc = "backup_name" /\ pc' = "copy") =>
              /\ ~Exists(fs, backup_file')
              /\ C12_FreeName(fs, current_file, backup_file')
        /\ pc # "idle" =>
              \A p \in DOMAIN fs \ {current_file} :
                  Exists(fs', p) /\ fs'[p] = fs[p]
        /\ (pc = "copy" /\ pc' = "build") =>
              /\ DOMAIN fs' = DOMAIN fs \cup {backup_file}
              /\ Cardinality(DOMAIN fs') = Cardinality(DOMAIN fs) + 1
        /\ (pc # "idle" /\ pc # "copy") => DOMAIN fs' \subseteq DOMAIN fs \cup {current_file}
      ]_vars

\* a save succeeded with the "_backup" name taken by an earlier backup: the
\* new backup is "_backup_1" and the earlier one is as it was
C12_Witness ==
    /\ Saved
    /\ current_file = "s.mscz"
    /\ backup_file = "s_backup_1.mscz"
    /\ fs[backup_file] = pre
    /\ fs["s_backup.mscz"] = OldBackup

\* open_file or load_file_from_path asks the "Unsaved Changes" question
C13_Asked == Idle /\ current_file # "" /\ HasUnsavedChanges(parts_data)

\* the step of open_file or of a drop in which the user gives this answer
C13_Answer(response) ==
    /\ C13_Asked
    /\ \/ OpenFileAnswered(response)
       \/ \E path \in UserPaths :
             /\ Exists(fs, path)
             /\ LoadFileFromPathAnswered(path, response)

C13_Kept == UNCHANGED <<current_file, parts_data, original_parts_data>>

\* save_file returns to open_file or load_file_from_path
C13_BackFromSave ==
    pc = "return" /\ caller.h \in {"open_file", "load_file_from_path"}

\* C13: when open_file or load_file_from_path finds unsaved changes, Cancel
\* leaves current_file and the record set as they are; Yes runs save_file
\* first, with the file and the records untouched until it returns, and
\* another file is then opened only if no unsaved changes remain (after a
\* failed save the current file and its pending edits are kept); a step of
\* these handlers that drops the pending edits or changes the current file
\* is the answer No, after which the chosen file is the current one.
C13_UnsavedChangesGuard ==
    [][ /\ C13_Answer("cancel") => C13_Kept /\ pc' = "idle" /\ fs' = fs
        /\ C13_Answer("yes") =>
              /\ C13_Kept
              /\ pc' # "idle"
              /\ caller'.h \in {"open_file", "load_file_from_path"}
        /\ (C13_BackFromSave /\ HasUnsavedChanges(parts_data)) =>
              C13_Kept /\ msg' = NoMsg
        /\ (C13_BackFromSave /\ ~C13_Kept) =>
              /\ ~HasUnsavedChanges(parts_data)
              /\ msg.text # "Failed to save file"
        /\ (C13_Asked /\ (OpenFile \/ OnDrop) /\ ~C13_Kept) => C13_Answer("no")
        /\ \A path \in UserPaths :
              (C13_Asked /\ Exists(fs, path) /\ LoadFileFromPathAnswered(path, "no")) =>
                  /\ current_file' = path
                  /\ msg'.text = "Loaded" => ~HasUnsavedChanges(parts_data')
      ]_vars

\* the user answered Yes in open_file, the save failed, and save_file is about
\* to return to open_file with the pending edits still there
C13_Witness ==
    /\ pc = "return"
    /\ caller.h = "open_file"
    /\ msg.text = "Failed to save file"
    /\ current_file = "s.mscz"
    /\ HasUnsavedChanges(parts_data)

\* C14: when exit_app finds unsaved changes and the user answers Yes, the
\* changes are saved and the application exits in that same invocation: the
\* step in which the successful save_file returns to exit_app ends the main
\* loop.
C14_SaveAndExit ==
    [][ (pc = "return" /\ caller.h = "exit_app" /\ Saved) => ~running' ]_vars

\* the backup-name search of save_file, standing at its while test, will
\* end: the candidate it holds is free, or one of the numbered candidates
\* still to come is (the file system does not change during the search, so
\* among any Cardinality(DOMAIN fs) + 1 distinct names one is free)
C15_SearchEnds ==
    \/ ~Exists(fs, backup_file)
    \/ \E k \in counter..(counter + Cardinality(DOMAIN fs)) :
          ~Exists(fs, NumberedBackupName(current_file, k))

\* C15: for every path open_file or on_drop can make the current file, a name
\* ending in ".MSCZ" included, the backup-name search of save_file ends, and
\* the backup path it yields differs from the path of the container.
C15_BackupSearchTerminates ==
    /\ pc = "backup_name" => C15_SearchEnds
    /\ pc \in {"backup_name", "copy"} => backup_file # current_file

\* the record set load_parts builds from the container at path p of the file
\* system f, if it can be loaded
C16_RecordsAt(f, p) ==
    LoadedRecords(ETparse(MscxFiles(FileAt(f, p))[1].data))

\* C16: the record set is the one loaded from the container at current_file.
\* The record set changes only with loads, edits and saves of that container,
\* so this is the statement that whenever another path becomes the current
\* file, failed loads included, the record set becomes the one read from
\* the container at that path (or is empty).
C16_RecordsOfCurrentFile ==
    [][ (running' /\ current_file' # current_file) =>
            \/ parts_data' = <<>>
            \/ /\ C10_Loadable(FileAt(fs', current_file'))
               /\ parts_data' = C16_RecordsAt(fs', current_file')
      ]_vars

\* what C16 excludes as a consequence: save_file has backed up and rewritten a
\* container without any .mscx member and reports the changes of records that
\* were read from another container
C16_SavedOtherContainer ==
    /\ Saved
    /\ current_file = "t.mscz"
    /\ Len(MscxFiles(pre)) = 0
    /\ num_changes > 0
    /\ fs[backup_file] = pre

\* C17: right after add_numbers on a freshly loaded record set (every
\* new_name equal to current_name) the new names of the records are pairwise
\* distinct: a numbered name never equals another record's name.
C17_DistinctNewNames ==
    [][ (C9_Step /\ ~HasUnsavedChanges(parts_data)) =>
            \A i, j \in 1..Len(parts_data') :
                i # j => parts_data'[i].new_name # parts_data'[j].new_name
      ]_vars

=============================================================================
